---- MODULE Spec2Model ----
(***************************************************************************)
(* Connectivity lifecycle of the ESP32-C3 GPIO monitor sketch              *)
(* (ESP32-C3-Mini-WebserverGPIOmonitor02.ino): boot, the control loop,     *)
(* the /connect and /reset handlers, the NVS credential record and the     *)
(* radio (station link, access point, captive DNS responder).              *)
(*                                                                         *)
(* The sketch is single threaded.  setup() and every pass of loop() run    *)
(* to completion, so each is one action; the radio and the power supply    *)
(* are the environment and act between passes.  The status values that     *)
(* connectToWiFi() reads while it blocks are an input of the action.       *)
(***************************************************************************)
EXTENDS Integers, Sequences, FiniteSets, TLC

VARIABLES
    nvs,          \* Preferences namespace "wifi": the keys "ssid" and "password"
    ssid,         \* String ssid      (RAM)
    password,     \* String password  (RAM)
    configMode,   \* bool configMode
    wifiMode,     \* WiFi.mode(): "WIFI_OFF", "WIFI_STA" or "WIFI_AP"
    staStatus,    \* WiFi.status()
    staTarget,    \* the identity of the last WiFi.begin(), NoId after WiFi.disconnect()
    apUp,         \* the soft access point is broadcasting
    dnsUp,        \* dnsServer is started (socket bound)
    serverUp,     \* server.begin() is in effect
    pc,           \* "boot": setup() has not run yet, "run": inside loop()
    bootCause,    \* why the device last started: "power", or ESP.restart() from
                  \* handleReset: "resetInStation", "resetInPortal"
    bootResult,   \* what setup() did: "pending", "noCredential", "connected", "failed"
    calls,        \* the library calls made by the most recent step, in order
    sent,         \* the HTTP responses sent by the most recent step, in order
    polls,        \* WiFi.status() reads made by the polling loop of the most
                  \* recent step's connection attempt (0 when it made none)
    reads,        \* what those reads returned, in order
    dnsIP,        \* the address dnsServer answers with (given to start())
    dnsQueue,     \* the names of the queries waiting at dnsServer's socket
    dnsSent,      \* the DNS replies sent by the most recent step, in order
    pins,         \* the level on each monitored GPIO pin (environment)
    clock,        \* millis() when the step starts, an unsigned long
                  \* (environment)
    faults        \* the library calls that fail at present (environment)

vars == <<nvs, ssid, password, configMode, wifiMode, staStatus, staTarget,
          apUp, dnsUp, serverUp, pc, bootCause, bootResult, calls, sent,
          polls, reads, dnsIP, dnsQueue, dnsSent, pins, clock, faults>>

----------------------------------------------------------------------------
(* Values *)

\* A key that is not present in the NVS namespace.
NoKey == "<absent>"

\* Network names and secrets a user may submit.  The form field is not
\* validated by the handler, so the empty name is one of them.
Names == {"", "home", "office"}
Secrets == {"pw", "secret123"}

Identities == [ssid : Names, password : Secrets]

NoId == [ssid |-> NoKey, password |-> NoKey]

WL_CONNECTED == "WL_CONNECTED"
WL_DISCONNECTED == "WL_DISCONNECTED"
WL_CONNECT_FAILED == "WL_CONNECT_FAILED"
Statuses == {WL_CONNECTED, WL_DISCONNECTED, WL_CONNECT_FAILED}

\* const unsigned long WIFI_TIMEOUT = 10000;
WIFI_TIMEOUT == 10000
\* delay(500) inside the polling loop of connectToWiFi
POLL_DELAY == 500

\* unsigned long is 32 bits wide on the ESP32-C3.  A value v is held as the
\* two's-complement integer with the same 32 bits: v itself below 2^31 and
\* v - 2^32 from 2^31 on, so that the counter passes from -1 to 0 where it
\* wraps.  Addition and subtraction modulo 2^32 are then the addition and
\* subtraction of these integers (none of the values here comes near
\* 2^31, where the integers would overflow); the order of the unsigned
\* values is not the order of the integers.

\* a + n modulo 2^32
Add32(a, n) == a + n
\* a - b modulo 2^32
Sub32(a, b) == a - b
\* a < b as a comparison of unsigned values
Less32(a, b) == IF (a < 0) = (b < 0) THEN a < b ELSE b < 0

\* The value that is lead milliseconds before the counter wraps to 0.
BeforeWrap(lead) == 0 - lead

\* The values of millis() at which a step may start: just after the start
\* of the device, and shortly before the counter wraps.
WrapLeads == {1, WIFI_TIMEOUT \div 2, WIFI_TIMEOUT}
Clocks == {0} \cup {BeforeWrap(lead) : lead \in WrapLeads}

\* The radio reports WL_CONNECTED from status read number upAt on (reads are
\* numbered from 0).  With MaxUpAt above WIFI_TIMEOUT / POLL_DELAY the
\* largest value means "not within the deadline".
MaxUpAt == 21

\* The reads at which the radio may start to report WL_CONNECTED: one of the
\* first few, the read made when the deadline has elapsed, or a later one.
EarlyReads == 1
UpAts == (0..EarlyReads) \cup ((WIFI_TIMEOUT \div POLL_DELAY)..MaxUpAt)

\* What the radio does during one blocking connection attempt: when it
\* starts to report WL_CONNECTED, and what the status read after the polling
\* loop returns.
\* When the network refuses the station (wrong secret, association
\* refused) the radio reports WL_CONNECT_FAILED from this read on, for as
\* long as it is not connected.
RejectRead == 1

AttemptEnvs == [upAt : UpAts, fin : Statuses]

NvsCleared == [ssid |-> NoKey, password |-> NoKey]

NvsOf(id) == [ssid |-> id.ssid, password |-> id.password]

\* Records the sketch itself can leave in NVS: nothing (never configured, or
\* cleared by /reset), or both keys written by saveCredentials.
StoredStates == {NvsCleared} \cup {NvsOf(id) : id \in Identities}

Call(op, id) == [op |-> op, id |-> id]

\* const int GPIO_PINS[] = {0, 1, 3, 4, 5};
GPIO_PINS == <<0, 1, 3, 4, 5>>
\* const int NUM_PINS = 5;
NUM_PINS == 5

LOW == 0
HIGH == 1

PinSet == {GPIO_PINS[i] : i \in 1..NUM_PINS}

\* With INPUT_PULLUP and nothing attached every pin reads HIGH.
PulledUp == [p \in PinSet |-> HIGH]

\* Level patterns the environment presents: every pin takes both levels, and
\* neighbouring entries differ in two of the patterns.
PinPatterns ==
    {PulledUp,
     [p \in PinSet |-> LOW],
     [p \in PinSet |-> IF p \in {0, 3, 5} THEN LOW ELSE HIGH],
     [p \in PinSet |-> IF p \in {0, 3, 5} THEN HIGH ELSE LOW]}

\* Failures the sketch does not look at: WiFi.softAP and dnsServer.start
\* return false, preferences.putString returns 0, WiFi.status() returns
\* WL_CONNECT_FAILED.
FaultKinds == {"softAP", "dnsStart", "putSsid", "putPassword", "staAuth"}

\* WiFi.softAPIP(): the address of the access point while it is up, and
\* the null address otherwise.
softAPIP == "192.168.4.1"
NoAddress == "0.0.0.0"

\* The names clients ask dnsServer for, and the number of queries its
\* socket holds.
QueryNames == {"connectivitycheck.gstatic.com", "example.org"}
MaxQueue == 2

\* An HTTP response: server.send(code, type, ...).  page names the HTML
\* page, entries holds the body of the JSON answer.
Response(code, type, page, entries) ==
    [code |-> code, type |-> type, page |-> page, entries |-> entries]

----------------------------------------------------------------------------
(* The program state as one record, so that the functions of the sketch    *)
(* compose as they do in the source.                                       *)

State ==
    [nvs |-> nvs, ssid |-> ssid, password |-> password,
     configMode |-> configMode, wifiMode |-> wifiMode,
     staStatus |-> staStatus, staTarget |-> staTarget,
     apUp |-> apUp, dnsUp |-> dnsUp, serverUp |-> serverUp,
     pc |-> pc, bootCause |-> bootCause, bootResult |-> bootResult,
     calls |-> <<>>, sent |-> <<>>, polls |-> 0, reads |-> <<>>,
     dnsIP |-> dnsIP, dnsQueue |-> dnsQueue, dnsSent |-> <<>>,
     ret |-> FALSE]

Commit(t) ==
    /\ nvs' = t.nvs
    /\ ssid' = t.ssid
    /\ password' = t.password
    /\ configMode' = t.configMode
    /\ wifiMode' = t.wifiMode
    /\ staStatus' = t.staStatus
    /\ staTarget' = t.staTarget
    /\ apUp' = t.apUp
    /\ dnsUp' = t.dnsUp
    /\ serverUp' = t.serverUp
    /\ pc' = t.pc
    /\ bootCause' = t.bootCause
    /\ bootResult' = t.bootResult
    /\ calls' = t.calls
    /\ sent' = t.sent
    /\ polls' = t.polls
    /\ reads' = t.reads
    /\ dnsIP' = t.dnsIP
    /\ dnsQueue' = t.dnsQueue
    /\ dnsSent' = t.dnsSent
    /\ UNCHANGED <<pins, clock, faults>>

Log(s, op, id) == [s EXCEPT !.calls = Append(@, Call(op, id))]

\* The globals as the C++ runtime initialises them, and a radio that is off.
PowerOnState(store, cause) ==
    [nvs |-> store, ssid |-> "", password |-> "",
     configMode |-> FALSE, wifiMode |-> "WIFI_OFF",
     staStatus |-> WL_DISCONNECTED, staTarget |-> NoId,
     apUp |-> FALSE, dnsUp |-> FALSE, serverUp |-> FALSE,
     pc |-> "boot", bootCause |-> cause, bootResult |-> "pending",
     calls |-> <<>>, sent |-> <<>>, polls |-> 0, reads |-> <<>>,
     dnsIP |-> NoAddress, dnsQueue |-> <<>>, dnsSent |-> <<>>,
     ret |-> FALSE]

----------------------------------------------------------------------------
(* Library calls *)

\* preferences.getString(key, "")
GetString(store, key) == IF store[key] = NoKey THEN "" ELSE store[key]

\* WiFi.mode(WIFI_STA): station interface on, access point interface off.
WiFiModeSTA(s) == [s EXCEPT !.wifiMode = "WIFI_STA", !.apUp = FALSE]

\* WiFi.mode(WIFI_AP): access point interface on, station interface off.
WiFiModeAP(s) ==
    [s EXCEPT !.wifiMode = "WIFI_AP", !.staStatus = WL_DISCONNECTED,
              !.staTarget = NoId]

\* WiFi.begin(ssid, password)
WiFiBegin(s, id) == Log([s EXCEPT !.staTarget = id], "WiFi.begin", id)

\* WiFi.disconnect()
WiFiDisconnect(s) ==
    Log([s EXCEPT !.staStatus = WL_DISCONNECTED, !.staTarget = NoId],
        "WiFi.disconnect", NoId)

\* WiFi.softAP(ap_ssid, ap_password)
WiFiSoftAP(s) ==
    Log([s EXCEPT !.apUp = IF "softAP" \in faults THEN @ ELSE TRUE],
        IF s.apUp THEN "WiFi.softAP.whileUp" ELSE "WiFi.softAP", NoId)

\* WiFi.softAPdisconnect(true)
WiFiSoftAPdisconnect(s) ==
    Log([s EXCEPT !.apUp = FALSE,
                  !.wifiMode = IF @ = "WIFI_AP" THEN "WIFI_OFF" ELSE @],
        "WiFi.softAPdisconnect", NoId)

\* dnsServer.start(DNS_PORT, "*", WiFi.softAPIP())
DnsStart(s) ==
    Log([s EXCEPT !.dnsUp = IF "dnsStart" \in faults THEN @ ELSE TRUE,
                  !.dnsIP = IF "dnsStart" \in faults THEN @
                            ELSE IF s.apUp THEN softAPIP ELSE NoAddress],
        IF s.dnsUp THEN "dnsServer.start.whileUp" ELSE "dnsServer.start", NoId)

\* dnsServer.stop() closes the socket; queries waiting there are lost.
DnsStop(s) ==
    Log([s EXCEPT !.dnsUp = FALSE, !.dnsQueue = <<>>], "dnsServer.stop", NoId)

\* dnsServer.processNextRequest() with domain "*": the query at the head of
\* the socket, if any, is answered with the address given to start().
DnsProcessNextRequest(s) ==
    LET entered == Log(s, "dnsServer.processNextRequest", NoId)
    IN  IF entered.dnsUp /\ entered.dnsQueue # <<>>
        THEN [entered EXCEPT
                 !.dnsSent = Append(@, [name |-> Head(entered.dnsQueue),
                                        addr |-> entered.dnsIP]),
                 !.dnsQueue = Tail(@)]
        ELSE entered

\* preferences.putString(key, value): the key keeps its content when the
\* write is rejected.
PutString(store, key, value, fault) ==
    IF fault \in faults THEN store ELSE [store EXCEPT ![key] = value]

\* server.send(code, type, body)
ServerSend(s, r) ==
    Log([s EXCEPT !.sent = Append(@, r)], "server.send", NoId)

\* digitalRead(pin)
digitalRead(pin) == pins[pin]

----------------------------------------------------------------------------
(* Functions of the sketch *)

\* A load that takes a record without a secret for no credential at all.
loadCredentials_RequireBoth(s) ==
    IF s.nvs["password"] = NoKey
    THEN [s EXCEPT !.ssid = "", !.password = ""]
    ELSE [s EXCEPT !.ssid = GetString(s.nvs, "ssid"),
                   !.password = GetString(s.nvs, "password")]

\* void loadCredentials()
loadCredentials(s) ==
    [s EXCEPT !.ssid = GetString(s.nvs, "ssid"),
              !.password = GetString(s.nvs, "password")]

\* A save that updates the globals and never reaches the flash.
saveCredentials_RamOnly(s, id) ==
    Log([s EXCEPT !.ssid = id.ssid, !.password = id.password],
        "saveCredentials", id)

\* A save that writes the name and leaves the secret of the old record.
saveCredentials_SsidOnly(s, id) ==
    Log([s EXCEPT !.nvs = PutString(@, "ssid", id.ssid, "putSsid"),
                  !.ssid = id.ssid,
                  !.password = id.password],
        "saveCredentials", id)

\* A save that takes over the new identity only when the flash accepted it.
saveCredentials_RamOnSuccess(s, id) ==
    LET written == PutString(PutString(s.nvs, "ssid", id.ssid, "putSsid"),
                             "password", id.password, "putPassword")
    IN  Log(IF written = NvsOf(id)
            THEN [s EXCEPT !.nvs = written, !.ssid = id.ssid,
                           !.password = id.password]
            ELSE [s EXCEPT !.nvs = written],
            "saveCredentials", id)

\* void saveCredentials(String newSSID, String newPassword)
saveCredentials(s, id) ==
    Log([s EXCEPT !.nvs = PutString(PutString(@, "ssid", id.ssid, "putSsid"),
                                    "password", id.password, "putPassword"),
                  !.ssid = id.ssid,
                  !.password = id.password],
        "saveCredentials", id)

\* WiFi.status() as read number r (from 0) of one attempt reports it.
StatusAtRead(env, r) ==
    IF r >= env.upAt THEN WL_CONNECTED
    ELSE IF "staAuth" \in faults /\ r >= RejectRead THEN WL_CONNECT_FAILED
    ELSE WL_DISCONNECTED

\* unsigned long startTime = millis();
startTime == clock

\* millis() when status read r of the attempt is made: r delays of
\* POLL_DELAY after the start.
millis(r) == Add32(clock, r * POLL_DELAY)

\* A polling loop that compares the clock with a deadline computed once.
RECURSIVE PollLoop_AbsoluteDeadline(_, _)
PollLoop_AbsoluteDeadline(env, r) ==
    IF /\ StatusAtRead(env, r) # WL_CONNECTED
       /\ Less32(millis(r), Add32(startTime, WIFI_TIMEOUT))
    THEN PollLoop_AbsoluteDeadline(env, r + 1)
    ELSE r

\* A polling loop that waits for the link without looking at the clock.
RECURSIVE PollLoop_NoDeadline(_, _)
PollLoop_NoDeadline(env, r) ==
    IF StatusAtRead(env, r) # WL_CONNECTED
    THEN PollLoop_NoDeadline(env, r + 1)
    ELSE r

\* while (WiFi.status() != WL_CONNECTED && millis() - startTime < WIFI_TIMEOUT)
\*   delay(500);
\* The number of the status read on which the loop exits; r delays of
\* POLL_DELAY have elapsed when read r is made.
RECURSIVE PollLoop(_, _)
PollLoop(env, r) ==
    IF /\ StatusAtRead(env, r) # WL_CONNECTED
       /\ Less32(Sub32(millis(r), startTime), WIFI_TIMEOUT)
    THEN PollLoop(env, r + 1)
    ELSE r

\* bool connectToWiFi(const char* ssid, const char* password)
\* The result is in field ret.
connectToWiFi(s, id, env) ==
    LET begun == WiFiBegin(WiFiModeSTA(s), id)
        exitRead == PollLoop(env, 0)
        polled == [begun EXCEPT !.staStatus = StatusAtRead(env, exitRead),
                                !.polls = exitRead + 1,
                                !.reads = [r \in 1..(exitRead + 1) |->
                                              StatusAtRead(env, r - 1)]]
        final == [polled EXCEPT !.staStatus = env.fin]
    IN  IF final.staStatus = WL_CONNECTED
        THEN [Log(final, "connectToWiFi.true", id)
                 EXCEPT !.configMode = FALSE, !.ret = TRUE]
        ELSE [WiFiDisconnect(Log(final, "connectToWiFi.false", id))
                 EXCEPT !.ret = FALSE]

\* void startConfigPortal()
startConfigPortal(s) ==
    DnsStart(WiFiSoftAP(WiFiModeAP(WiFiDisconnect(
        Log([s EXCEPT !.configMode = TRUE], "startConfigPortal", NoId)))))

\* void setupWebServer(): registers the routes again; the handlers read
\* configMode when a request arrives.
setupWebServer(s) == Log(s, "setupWebServer", NoId)

\* The pages of handleConnect and handleReset (lines 460 and 526).
ConnectingPage == Response(200, "text/html", "Connecting...", <<>>)
ResettingPage == Response(200, "text/html", "Resetting Device...", <<>>)

\* A handler that only fails to re-enter the portal: used to show that the
\* failure branch of handleConnect decides where a failed submission ends.
handleConnect_NoPortalRestart(s, id, env) ==
    LET saved == saveCredentials(
                     ServerSend(Log(s, "handleConnect", id), ConnectingPage), id)
        stopped == WiFiSoftAPdisconnect(DnsStop(saved))
        tried == connectToWiFi(stopped, id, env)
        ended == IF tried.ret THEN [tried EXCEPT !.configMode = FALSE]
                 ELSE tried
    IN  [setupWebServer(ended) EXCEPT !.serverUp = TRUE]

\* A handler that persists the credential only after the attempt succeeded.
handleConnect_SaveOnSuccess(s, id, env) ==
    LET entered == ServerSend(Log(s, "handleConnect", id), ConnectingPage)
        stopped == WiFiSoftAPdisconnect(DnsStop(entered))
        tried == connectToWiFi(stopped, id, env)
        ended == IF tried.ret
                 THEN [saveCredentials(tried, id) EXCEPT !.configMode = FALSE]
                 ELSE startConfigPortal(tried)
    IN  [setupWebServer(ended) EXCEPT !.serverUp = TRUE]

\* A handler that leaves the DNS responder running.
handleConnect_NoDnsStop(s, id, env) ==
    LET saved == saveCredentials(
                     ServerSend(Log(s, "handleConnect", id), ConnectingPage), id)
        stopped == WiFiSoftAPdisconnect(saved)
        tried == connectToWiFi(stopped, id, env)
        ended == IF tried.ret THEN [tried EXCEPT !.configMode = FALSE]
                 ELSE startConfigPortal(tried)
    IN  [setupWebServer(ended) EXCEPT !.serverUp = TRUE]

\* A handler that answers the request only when the attempt is over.
handleConnect_SendAfterAttempt(s, id, env) ==
    LET saved == saveCredentials(Log(s, "handleConnect", id), id)
        stopped == WiFiSoftAPdisconnect(DnsStop(saved))
        tried == connectToWiFi(stopped, id, env)
        ended == IF tried.ret THEN [tried EXCEPT !.configMode = FALSE]
                 ELSE startConfigPortal(tried)
    IN  [setupWebServer(ServerSend(ended, ConnectingPage))
            EXCEPT !.serverUp = TRUE]

\* A handler that sets the mode flag the wrong way after a success.
handleConnect_FlagInverted(s, id, env) ==
    LET saved == saveCredentials(
                     ServerSend(Log(s, "handleConnect", id), ConnectingPage), id)
        stopped == WiFiSoftAPdisconnect(DnsStop(saved))
        tried == connectToWiFi(stopped, id, env)
        ended == IF tried.ret THEN [tried EXCEPT !.configMode = TRUE]
                 ELSE startConfigPortal(tried)
    IN  [setupWebServer(ended) EXCEPT !.serverUp = TRUE]

\* void handleConnect(): POST /connect with form fields ssid and password.
handleConnect(s, id, env) ==
    LET saved == saveCredentials(
                     ServerSend(Log(s, "handleConnect", id), ConnectingPage), id)
        stopped == WiFiSoftAPdisconnect(DnsStop(saved))
        tried == connectToWiFi(stopped, id, env)
        ended == IF tried.ret THEN [tried EXCEPT !.configMode = FALSE]
                 ELSE startConfigPortal(tried)
    IN  \* server.stop(); setupWebServer(); server.begin();
        [setupWebServer(ended) EXCEPT !.serverUp = TRUE]

\* The restart cause remembers the mode in which the reset was requested.
ResetCause(s) == IF s.configMode THEN "resetInPortal" ELSE "resetInStation"

\* A reset that restarts without erasing the namespace.
handleReset_NoClear(s) ==
    LET answered == ServerSend(Log(s, "handleReset", NoId), ResettingPage)
    IN  [PowerOnState(s.nvs, ResetCause(s))
            EXCEPT !.calls = answered.calls, !.sent = answered.sent]

\* void handleReset(): POST /reset; preferences.clear(), then ESP.restart().
handleReset(s) ==
    LET answered == ServerSend(Log(s, "handleReset", NoId), ResettingPage)
    IN  [PowerOnState(NvsCleared, ResetCause(s))
            EXCEPT !.calls = answered.calls, !.sent = answered.sent]

\* The two strings the wrong way round.
StateStr_Inverted(state) == IF state = HIGH THEN "LOW" ELSE "HIGH"

\* String stateStr = (state == HIGH) ? "HIGH" : "LOW";
StateStr(state) == IF state = HIGH THEN "HIGH" ELSE "LOW"

\* The for loop of handleGPIOAPI from index i (0-based, as in the source)
\* on: one entry {"gpio": pin, "state": stateStr} per pin.
RECURSIVE GpioEntries(_)
GpioEntries(i) ==
    IF i < NUM_PINS
    THEN <<[gpio |-> GPIO_PINS[i + 1],
            state |-> StateStr(digitalRead(GPIO_PINS[i + 1]))]>>
         \o GpioEntries(i + 1)
    ELSE <<>>

\* void handleGPIOAPI(): GET /api/gpio
handleGPIOAPI(s) ==
    ServerSend(Log(s, "handleGPIOAPI", NoId),
               Response(200, "application/json", "", GpioEntries(0)))

\* A boot that tries the station link whatever was loaded.
setup_AlwaysAttempt(s, env) ==
    LET loaded == loadCredentials(Log(s, "setup", NoId))
        id == [ssid |-> loaded.ssid, password |-> loaded.password]
        tried == connectToWiFi(loaded, id, env)
        joined == IF tried.ret THEN [tried EXCEPT !.bootResult = "connected"]
                  ELSE [startConfigPortal(tried) EXCEPT !.bootResult = "failed"]
    IN  [setupWebServer(joined) EXCEPT !.serverUp = TRUE, !.pc = "run"]

\* A boot that does not fall back to the portal when the attempt fails.
setup_NoFallback(s, env) ==
    LET loaded == loadCredentials(Log(s, "setup", NoId))
        id == [ssid |-> loaded.ssid, password |-> loaded.password]
        tried == connectToWiFi(loaded, id, env)
        joined ==
            IF loaded.ssid # ""
            THEN IF tried.ret THEN [tried EXCEPT !.bootResult = "connected"]
                 ELSE [tried EXCEPT !.bootResult = "failed"]
            ELSE [startConfigPortal(loaded) EXCEPT !.bootResult = "noCredential"]
    IN  [setupWebServer(joined) EXCEPT !.serverUp = TRUE, !.pc = "run"]

\* A boot that starts the portal whether or not the attempt succeeded.
setup_PortalAlways(s, env) ==
    LET loaded == loadCredentials(Log(s, "setup", NoId))
        id == [ssid |-> loaded.ssid, password |-> loaded.password]
        tried == connectToWiFi(loaded, id, env)
        joined ==
            IF loaded.ssid # ""
            THEN [startConfigPortal(tried)
                     EXCEPT !.bootResult = IF tried.ret THEN "connected"
                                           ELSE "failed"]
            ELSE [startConfigPortal(loaded) EXCEPT !.bootResult = "noCredential"]
    IN  [setupWebServer(joined) EXCEPT !.serverUp = TRUE, !.pc = "run"]

\* void setup()
setup(s, env) ==
    LET loaded == loadCredentials(Log(s, "setup", NoId))
        id == [ssid |-> loaded.ssid, password |-> loaded.password]
        tried == connectToWiFi(loaded, id, env)
        joined ==
            IF loaded.ssid # ""
            THEN IF tried.ret THEN [tried EXCEPT !.bootResult = "connected"]
                 ELSE [startConfigPortal(tried) EXCEPT !.bootResult = "failed"]
            ELSE [startConfigPortal(loaded) EXCEPT !.bootResult = "noCredential"]
    IN  \* setupWebServer(); server.begin();
        [setupWebServer(joined) EXCEPT !.serverUp = TRUE, !.pc = "run"]

\* The pages of handleRoot and handleConfigPage, and the answer of the
\* onNotFound handler outside config mode.
GpioPage(entries) == Response(200, "text/html", "ESP32-C3 GPIO Monitor", entries)
ConfigPage == Response(200, "text/html", "ESP32-C3 WiFi Setup", <<>>)
NotFoundResponse == Response(404, "text/plain", "Not found", <<>>)

\* void handleRoot(): the GPIO page with the state of every pin.
handleRoot(s) == ServerSend(Log(s, "handleRoot", NoId), GpioPage(GpioEntries(1)))

\* void handleConfigPage(): the WiFi set-up form.
handleConfigPage(s) == ServerSend(Log(s, "handleConfigPage", NoId), ConfigPage)

\* A root route that serves the GPIO page whatever the mode.
onRoot_NoModeTest(s) == handleRoot(Log(s, "server.on(/)", NoId))

\* server.on("/", HTTP_GET, [](){ if (configMode) ... else ... })
onRoot(s) ==
    LET entered == Log(s, "server.on(/)", NoId)
    IN  IF entered.configMode THEN handleConfigPage(entered)
        ELSE handleRoot(entered)

\* server.onNotFound([](){ if (configMode) ... else server.send(404, ...) })
onNotFound(s) ==
    LET entered == Log(s, "server.onNotFound", NoId)
    IN  IF entered.configMode THEN handleConfigPage(entered)
        ELSE ServerSend(entered, NotFoundResponse)

\* Requests that server.handleClient() may find pending.
NoRequest == [kind |-> "none", id |-> NoId]
ConnectRequest(id) == [kind |-> "POST /connect", id |-> id]
ResetRequest == [kind |-> "POST /reset", id |-> NoId]
GpioRequest == [kind |-> "GET /api/gpio", id |-> NoId]
RootRequest == [kind |-> "GET /", id |-> NoId]
\* A request for a path, or with a method, that no route is registered for.
UnregisteredRequest == [kind |-> "GET /generate_204", id |-> NoId]

\* server.handleClient(): dispatch of at most one pending request.
handleClient(s, req, env) ==
    LET entered == Log(s, "server.handleClient", NoId)
    IN  CASE req.kind = "POST /connect" -> handleConnect(entered, req.id, env)
          [] req.kind = "POST /reset" -> handleReset(entered)
          [] req.kind = "GET /api/gpio" -> handleGPIOAPI(entered)
          [] req.kind = "GET /" -> onRoot(entered)
          [] req.kind = "GET /generate_204" -> onNotFound(entered)
          [] OTHER -> entered

\* A loop head that services the resolver whatever the mode.
processDns_NoModeTest(s) == DnsProcessNextRequest(s)

\* if (configMode) { dnsServer.processNextRequest(); }
processDns(s) ==
    IF s.configMode THEN DnsProcessNextRequest(s) ELSE s

\* The reconnect branch at the end of loop().
reconnect(s, env) ==
    LET tried == connectToWiFi(s, [ssid |-> s.ssid, password |-> s.password], env)
    IN  IF tried.ret THEN tried ELSE setupWebServer(startConfigPortal(tried))

\* A loop that tests only the radio status before it reconnects.
loop_NoConfigModeTest(s, req, env) ==
    LET served == handleClient(processDns(Log(s, "loop", NoId)), req, env)
    IN  IF served.pc = "boot" THEN served
        ELSE IF served.staStatus # WL_CONNECTED
        THEN reconnect(served, env)
        ELSE served

\* A loop that retries on every pass instead of falling back to the portal.
loop_NoFallback(s, req, env) ==
    LET served == handleClient(processDns(Log(s, "loop", NoId)), req, env)
    IN  IF served.pc = "boot" THEN served
        ELSE IF ~served.configMode /\ served.staStatus # WL_CONNECTED
        THEN connectToWiFi(served,
                 [ssid |-> served.ssid, password |-> served.password], env)
        ELSE served

\* void loop(): one pass.  ESP.restart() inside handleReset does not
\* return, so the rest of the pass is skipped after it.  At most one
\* connection attempt is made per pass: after handleConnect either the
\* status is WL_CONNECTED or configMode is true.
loop(s, req, env) ==
    LET served == handleClient(processDns(Log(s, "loop", NoId)), req, env)
    IN  IF served.pc = "boot" THEN served
        ELSE IF ~served.configMode /\ served.staStatus # WL_CONNECTED
        THEN reconnect(served, env)
        ELSE served

----------------------------------------------------------------------------
(* Modes of the connectivity manager, read off the sketch's state *)

Uninitialized == pc = "boot"
PortalActive == pc = "run" /\ configMode
Connected == pc = "run" /\ ~configMode /\ staStatus = WL_CONNECTED
\* The link dropped and the next pass of loop() will try to reconnect.
LinkDown == pc = "run" /\ ~configMode /\ staStatus # WL_CONNECTED

\* A client can reach the web server through the access point or through
\* the network the station has joined.
ServerReachable == pc = "run" /\ serverUp /\ (apUp \/ staStatus = WL_CONNECTED)

----------------------------------------------------------------------------
(* Initial state and actions *)

Init ==
    \E store \in StoredStates :
        LET s == PowerOnState(store, "power")
        IN  /\ nvs = s.nvs
            /\ ssid = s.ssid
            /\ password = s.password
            /\ configMode = s.configMode
            /\ wifiMode = s.wifiMode
            /\ staStatus = s.staStatus
            /\ staTarget = s.staTarget
            /\ apUp = s.apUp
            /\ dnsUp = s.dnsUp
            /\ serverUp = s.serverUp
            /\ pc = s.pc
            /\ bootCause = s.bootCause
            /\ bootResult = s.bootResult
            /\ calls = s.calls
            /\ sent = s.sent
            /\ polls = s.polls
            /\ reads = s.reads
            /\ dnsIP = s.dnsIP
            /\ dnsQueue = s.dnsQueue
            /\ dnsSent = s.dnsSent
            /\ pins = PulledUp
            /\ clock = 0
            /\ faults = {}

\* The radio's behaviour is an input of a step only if the step can start a
\* connection attempt; otherwise one value stands for all of them.
AnyEnv == CHOOSE env \in AttemptEnvs : TRUE
EnvsIf(mayAttempt) == IF mayAttempt THEN AttemptEnvs ELSE {AnyEnv}

\* setup() runs once after every start.
Setup ==
    /\ pc = "boot"
    /\ \E env \in EnvsIf(GetString(nvs, "ssid") # "") :
           Commit(setup(State, env))

\* A pass of loop() with no request pending.
LoopIdle ==
    /\ pc = "run"
    /\ \E env \in EnvsIf(LinkDown) : Commit(loop(State, NoRequest, env))

\* A pass of loop() that finds a credential submission pending.
LoopConnect ==
    /\ ServerReachable
    /\ \E id \in Identities, env \in AttemptEnvs :
           Commit(loop(State, ConnectRequest(id), env))

\* A pass of loop() that finds a reset request pending.
LoopReset ==
    /\ ServerReachable
    /\ \E env \in EnvsIf(LinkDown) : Commit(loop(State, ResetRequest, env))

\* The station link drops (access point out of range, switched off).
LinkLost ==
    /\ pc = "run"
    /\ staStatus = WL_CONNECTED
    /\ staStatus' = WL_DISCONNECTED
    /\ calls' = <<>>
    /\ sent' = <<>>
    /\ polls' = 0
    /\ reads' = <<>>
    /\ dnsSent' = <<>>
    /\ UNCHANGED <<dnsIP, dnsQueue, clock>>
    /\ UNCHANGED <<nvs, ssid, password, configMode, wifiMode, staTarget,
                   apUp, dnsUp, serverUp, pc, bootCause, bootResult,
                   pins, faults>>

\* The radio re-associates on its own with the network it was told to join.
LinkRestored ==
    /\ pc = "run"
    /\ wifiMode = "WIFI_STA"
    /\ staTarget # NoId
    /\ staStatus # WL_CONNECTED
    /\ staStatus' = WL_CONNECTED
    /\ calls' = <<>>
    /\ sent' = <<>>
    /\ polls' = 0
    /\ reads' = <<>>
    /\ dnsSent' = <<>>
    /\ UNCHANGED <<dnsIP, dnsQueue, clock>>
    /\ UNCHANGED <<nvs, ssid, password, configMode, wifiMode, staTarget,
                   apUp, dnsUp, serverUp, pc, bootCause, bootResult,
                   pins, faults>>

\* A pass of loop() that finds a request for the GPIO states pending.
LoopGpio ==
    /\ ServerReachable
    /\ \E env \in EnvsIf(LinkDown) : Commit(loop(State, GpioRequest, env))

\* A pass of loop() that finds a request for the root page pending.
LoopRoot ==
    /\ ServerReachable
    /\ \E env \in EnvsIf(LinkDown) : Commit(loop(State, RootRequest, env))

\* A pass of loop() that finds a request for an unregistered path pending.
LoopNotFound ==
    /\ ServerReachable
    /\ \E env \in EnvsIf(LinkDown) :
           Commit(loop(State, UnregisteredRequest, env))

\* A client of the access point sends a name-resolution query.
DnsQuery ==
    /\ pc = "run"
    /\ apUp /\ dnsUp
    /\ Len(dnsQueue) < MaxQueue
    /\ \E name \in QueryNames : dnsQueue' = Append(dnsQueue, name)
    /\ calls' = <<>>
    /\ sent' = <<>>
    /\ polls' = 0
    /\ reads' = <<>>
    /\ dnsSent' = <<>>
    /\ UNCHANGED <<nvs, ssid, password, configMode, wifiMode, staStatus,
                   staTarget, apUp, dnsUp, serverUp, pc, bootCause,
                   bootResult, dnsIP, pins, clock, faults>>

\* Time passes: the next step starts at another value of millis().
ClockChange ==
    /\ clock' \in Clocks \ {clock}
    /\ calls' = <<>>
    /\ sent' = <<>>
    /\ polls' = 0
    /\ reads' = <<>>
    /\ dnsSent' = <<>>
    /\ UNCHANGED <<nvs, ssid, password, configMode, wifiMode, staStatus,
                   staTarget, apUp, dnsUp, serverUp, pc, bootCause,
                   bootResult, dnsIP, dnsQueue, pins, faults>>

\* The level on the monitored pins changes.
PinChange ==
    /\ pins' \in PinPatterns \ {pins}
    /\ calls' = <<>>
    /\ sent' = <<>>
    /\ polls' = 0
    /\ reads' = <<>>
    /\ dnsSent' = <<>>
    /\ UNCHANGED <<dnsIP, dnsQueue, clock>>
    /\ UNCHANGED <<nvs, ssid, password, configMode, wifiMode, staStatus,
                   staTarget, apUp, dnsUp, serverUp, pc, bootCause,
                   bootResult, faults>>

\* The access point, the DNS responder or both fail to start.
RadioFaults == SUBSET {"softAP", "dnsStart"}

\* The namespace runs out of space, so that the second write of a save is
\* rejected, or the partition rejects every write.
FlashFaults == {{}, {"putPassword"}, {"putSsid", "putPassword"}}

\* Library calls start or stop failing.
FaultChange(faultSets) ==
    /\ faults' \in faultSets \ {faults}
    /\ calls' = <<>>
    /\ sent' = <<>>
    /\ polls' = 0
    /\ reads' = <<>>
    /\ dnsSent' = <<>>
    /\ UNCHANGED <<dnsIP, dnsQueue, clock>>
    /\ UNCHANGED <<nvs, ssid, password, configMode, wifiMode, staStatus,
                   staTarget, apUp, dnsUp, serverUp, pc, bootCause,
                   bootResult, pins>>

\* Power is removed and applied again: RAM and radio start afresh, NVS stays.
PowerCycle ==
    /\ pc = "run"
    /\ Commit(PowerOnState(nvs, "power"))

Next ==
    \/ Setup
    \/ LoopIdle
    \/ LoopConnect
    \/ LoopReset
    \/ LoopGpio
    \/ LinkLost
    \/ LinkRestored
    \/ PowerCycle

\* The sketch with every library call succeeding and the pins left pulled up.
Spec == Init /\ [][Next]_vars

\* The sketch with the levels on the pins changing.
NextGpio == Next \/ PinChange
SpecGpio == Init /\ [][NextGpio]_vars

\* A pass of loop() in the portal that finds no HTTP request pending: it
\* services the resolver and the web server and does nothing else.
PortalTick ==
    /\ PortalActive
    /\ calls' = <<Call("loop", NoId), Call("dnsServer.processNextRequest", NoId),
                  Call("server.handleClient", NoId)>>
    /\ LoopIdle

\* The Arduino core calls loop() again and again, and HTTP requests are not
\* pending on every pass: the portal does not stay for ever with a query
\* waiting and no such pass.  This is what WF_vars(PortalTick) asks of the
\* states in which a query waits, where PortalTick is enabled.
PortalTickFairness ==
    []<>(~(PortalActive /\ dnsQueue # <<>>)) \/ []<><<PortalTick>>_vars

\* The sketch with clients that send name-resolution queries.
NextDns == Next \/ DnsQuery
SpecDns == Init /\ [][NextDns]_vars /\ PortalTickFairness

\* The sketch with steps that start at any time, also near the wrap of millis().
NextClock == Next \/ ClockChange
SpecClock == Init /\ [][NextClock]_vars

\* The sketch with clients that ask for the root page and for other paths.
NextRoutes == Next \/ LoopRoot \/ LoopNotFound
SpecRoutes == Init /\ [][NextRoutes]_vars

\* The sketch with an access point or a DNS responder that may fail to start.
RadioFaultChange == FaultChange(RadioFaults)
NextRadioFaults == Next \/ RadioFaultChange
SpecRadioFaults == Init /\ [][NextRadioFaults]_vars

\* The sketch with networks that may refuse the station.
AuthFaults == {{}, {"staAuth"}}
AuthFaultChange == FaultChange(AuthFaults)
NextAuthFaults == Next \/ AuthFaultChange
SpecAuthFaults == Init /\ [][NextAuthFaults]_vars

\* The sketch with NVS writes that may be rejected.
FlashFaultChange == FaultChange(FlashFaults)
NextFlashFaults == Next \/ FlashFaultChange
SpecFlashFaults == Init /\ [][NextFlashFaults]_vars

TypeOK ==
    /\ nvs \in [ssid : Names \cup {NoKey}, password : Secrets \cup {NoKey, ""}]
    /\ ssid \in Names
    /\ password \in Secrets \cup {""}
    /\ configMode \in BOOLEAN
    /\ wifiMode \in {"WIFI_OFF", "WIFI_STA", "WIFI_AP"}
    /\ staStatus \in Statuses
    /\ staTarget \in [ssid : Names, password : Secrets \cup {""}] \cup {NoId}
    /\ apUp \in BOOLEAN /\ dnsUp \in BOOLEAN /\ serverUp \in BOOLEAN
    /\ pc \in {"boot", "run"}
    /\ bootCause \in {"power", "resetInStation", "resetInPortal"}
    /\ bootResult \in {"pending", "noCredential", "connected", "failed"}
    /\ polls \in 0..(MaxUpAt + 1)
    /\ reads \in Seq(Statuses) /\ Len(reads) = polls
    /\ dnsIP \in {NoAddress, softAPIP}
    /\ dnsQueue \in Seq(QueryNames) /\ Len(dnsQueue) <= MaxQueue
    /\ dnsSent \in Seq([name : QueryNames, addr : {NoAddress, softAPIP}])
    /\ pins \in PinPatterns
    /\ clock \in Clocks
    /\ faults \subseteq FaultKinds

----------------------------------------------------------------------------
(* Reading the calls of the most recent step *)

HasCall(cs, op) == \E i \in DOMAIN cs : cs[i].op = op

Submitted(cs, id) == \E i \in DOMAIN cs : cs[i] = Call("handleConnect", id)

IsBegin(c) == c.op = "WiFi.begin"

Begins(cs) == SelectSeq(cs, IsBegin)

FailedSubmission(cs) ==
    HasCall(cs, "handleConnect") /\ HasCall(cs, "connectToWiFi.false")

SucceededSubmission(cs) ==
    HasCall(cs, "handleConnect") /\ HasCall(cs, "connectToWiFi.true")

\* The position of the first call of op in cs, 0 when there is none.
FirstIndex(cs, op) ==
    IF HasCall(cs, op)
    THEN CHOOSE i \in DOMAIN cs :
             cs[i].op = op /\ \A j \in 1..(i - 1) : cs[j].op # op
    ELSE 0

\* The position at which the connection attempt of cs returned.
ResultIndex(cs) ==
    IF HasCall(cs, "connectToWiFi.true")
    THEN FirstIndex(cs, "connectToWiFi.true")
    ELSE FirstIndex(cs, "connectToWiFi.false")

\* The loop serviced the web server or the resolver while the attempt of cs
\* was waiting for its result.
ServicedDuringAttempt(cs) ==
    \E i \in DOMAIN cs :
        /\ FirstIndex(cs, "WiFi.begin") < i
        /\ i < ResultIndex(cs)
        /\ cs[i].op \in {"server.handleClient", "dnsServer.processNextRequest"}

----------------------------------------------------------------------------
(* Claims *)

\* C1 (as stated): a credential submission whose connection attempt fails
\* leaves the persisted credential as it was before the submission.
C1_FailedSubmissionKeepsStore ==
    [][FailedSubmission(calls') => nvs' = nvs]_vars

\* C1 (amended): the submitted credential is persisted before the attempt,
\* so after a submission whose attempt fails the persisted credential is the
\* submitted identity.
C1_FailedSubmissionStoresSubmitted ==
    [][\A id \in Identities :
          (Submitted(calls', id) /\ FailedSubmission(calls'))
              => nvs' = NvsOf(id)]_vars

C1_Witness ==
    /\ bootResult = "noCredential"
    /\ FailedSubmission(calls)
    /\ Submitted(calls, [ssid |-> "office", password |-> "pw"])
    /\ nvs = [ssid |-> "office", password |-> "pw"]

\* C2: no station connection attempt is ever started with an empty network
\* name, on any path (boot, reconnect, submission).
C2_NoAttemptWithEmptyName ==
    \A i \in DOMAIN calls : IsBegin(calls[i]) => calls[i].id.ssid # ""

\* C3: Scenario C.  A boot with a stored credential whose attempt fails ends
\* in PortalActive; a submission made after such a boot whose attempt
\* succeeds ends in Connected with the submitted name and secret persisted.
C3_ScenarioC ==
    [][/\ (pc = "boot" /\ GetString(nvs, "ssid") # "" /\ pc' = "run"
              /\ HasCall(calls', "connectToWiFi.false"))
          => (PortalActive' /\ bootResult' = "failed")
       /\ \A id \in Identities :
            (PortalActive /\ bootResult = "failed" /\ Submitted(calls', id)
                /\ SucceededSubmission(calls'))
            => (Connected' /\ nvs' = NvsOf(id))]_vars

C3_Witness ==
    /\ bootResult = "failed"
    /\ Connected
    /\ SucceededSubmission(calls)
    /\ Submitted(calls, [ssid |-> "office", password |-> "pw"])
    /\ nvs = [ssid |-> "office", password |-> "pw"]
    /\ staTarget = [ssid |-> "office", password |-> "pw"]

\* C4: Scenario A.  A boot that finds no stored credential goes straight to
\* PortalActive and starts no station connection attempt.
C4_ScenarioA ==
    [][(pc = "boot" /\ GetString(nvs, "ssid") = "" /\ pc' = "run")
          => /\ PortalActive'
             /\ bootResult' = "noCredential"
             /\ ~HasCall(calls', "WiFi.begin")
             /\ ~HasCall(calls', "connectToWiFi.true")
             /\ ~HasCall(calls', "connectToWiFi.false")]_vars

C4_Witness ==
    /\ PortalActive
    /\ nvs = NvsCleared
    /\ bootResult = "noCredential"
    /\ HasCall(calls, "setup")
    /\ HasCall(calls, "startConfigPortal")

\* C5: Scenario D.  A reset request received while Connected erases the
\* stored credential before the restart; the boot that follows finds no
\* credential, starts no connection attempt and ends in PortalActive.
C5_ScenarioD ==
    [][/\ (Connected /\ HasCall(calls', "handleReset"))
          => (pc' = "boot" /\ bootCause' = "resetInStation"
                 /\ nvs' = NvsCleared)
       /\ (pc = "boot" /\ bootCause = "resetInStation" /\ pc' = "run")
          => /\ nvs = NvsCleared
             /\ nvs' = NvsCleared
             /\ PortalActive'
             /\ ~HasCall(calls', "WiFi.begin")]_vars

C5_Witness ==
    /\ bootCause = "resetInStation"
    /\ PortalActive
    /\ HasCall(calls, "setup")
    /\ nvs = NvsCleared
    /\ apUp /\ dnsUp

\* C6: a submission whose attempt fails ends in PortalActive with the access
\* point up, the resolver started and the web server reachable, so that the
\* next submission is accepted; whenever the device is in PortalActive or
\* Connected a submission can be made.
C6_FailedSubmissionReentersPortal ==
    [][/\ FailedSubmission(calls')
          => (PortalActive' /\ apUp' /\ dnsUp' /\ ServerReachable')
       /\ (PortalActive' \/ Connected') => ServerReachable']_vars

C6_Witness ==
    /\ FailedSubmission(calls)
    /\ PortalActive
    /\ apUp /\ dnsUp
    /\ ServerReachable
    /\ ENABLED LoopConnect

\* C7: from PortalActive, a step that handles neither a submission nor a
\* reset starts no station connection attempt and stays in PortalActive.
C7_NoAttemptInPortal ==
    [][(PortalActive /\ pc' = "run" /\ ~HasCall(calls', "handleConnect"))
          => (~HasCall(calls', "WiFi.begin") /\ PortalActive')]_vars

C7_Witness ==
    /\ PortalActive
    /\ calls = <<Call("loop", NoId),
                 Call("dnsServer.processNextRequest", NoId),
                 Call("server.handleClient", NoId)>>

\* C8: when the link is down after having been Connected, the pass of loop()
\* makes exactly one attempt, with the identity that was connected, which is
\* the stored one; success ends in Connected, failure in PortalActive, and
\* passes of loop() in PortalActive make no further attempt.
C8_OneReconnectAttempt ==
    [][/\ (LinkDown /\ HasCall(calls', "loop"))
          => /\ Begins(calls') = <<Call("WiFi.begin", staTarget)>>
             /\ staTarget # NoId
             /\ nvs = NvsOf(staTarget)
             /\ nvs' = nvs
             /\ HasCall(calls', "connectToWiFi.true") => Connected'
             /\ HasCall(calls', "connectToWiFi.false") => PortalActive'
             /\ Connected' \/ PortalActive'
       /\ (PortalActive /\ HasCall(calls', "loop")
              /\ ~HasCall(calls', "handleConnect") /\ pc' = "run")
          => (Begins(calls') = <<>> /\ PortalActive')]_vars

C8_Witness ==
    /\ PortalActive
    /\ bootResult = "connected"
    /\ HasCall(calls, "loop")
    /\ ~HasCall(calls, "handleConnect")
    /\ HasCall(calls, "connectToWiFi.false")
    /\ Len(Begins(calls)) = 1

\* C9: whenever the device is Connected, the persisted credential is the
\* identity the station link was established with, whichever path led there.
C9_ConnectedIdentityIsStored ==
    Connected => (staTarget # NoId /\ nvs = NvsOf(staTarget))

C9_Witness ==
    /\ Connected
    /\ SucceededSubmission(calls)
    /\ bootResult = "connected"
    /\ staTarget = [ssid |-> "office", password |-> "secret123"]
    /\ nvs = [ssid |-> "office", password |-> "secret123"]

\* C10: between steps the access point and the DNS responder are running
\* exactly when configMode is true, neither runs before setup(), and no step
\* starts either of them while it is already running.
C10_PortalSessionIffConfigMode ==
    /\ pc = "run" => ((configMode <=> apUp) /\ (configMode <=> dnsUp))
    /\ pc = "boot" => (~apUp /\ ~dnsUp)
    /\ ~HasCall(calls, "WiFi.softAP.whileUp")
    /\ ~HasCall(calls, "dnsServer.start.whileUp")

C10_Witness ==
    /\ Connected
    /\ SucceededSubmission(calls)
    /\ HasCall(calls, "dnsServer.stop")
    /\ ~apUp /\ ~dnsUp

\* C11 (as stated): the device is never in configMode without a working
\* portal session, also when WiFi.softAP or dnsServer.start fails.
C11_NoPortalModeWithoutSession ==
    (pc = "run" /\ configMode) => (apUp /\ dnsUp)

C13_MissingFieldIsNoCredential ==
    [][(pc = "boot" /\ pc' = "run"
           /\ (nvs.ssid = NoKey \/ nvs.password = NoKey))
          => (PortalActive' /\ ~HasCall(calls', "WiFi.begin"))]_vars

\* C13 (amended): a boot that finds the name absent starts the portal and no
\* connection attempt; a boot that finds a name and no secret starts an
\* attempt with that name and the empty secret.
C13_MissingNameIsNoCredential ==
    [][(pc = "boot" /\ pc' = "run")
          => /\ nvs.ssid = NoKey
                => (PortalActive' /\ ~HasCall(calls', "WiFi.begin"))
             /\ (nvs.ssid \notin {NoKey, ""} /\ nvs.password = NoKey)
                => Begins(calls')
                       = <<Call("WiFi.begin",
                                [ssid |-> nvs.ssid, password |-> ""])>>]_vars

C13_Witness ==
    /\ pc = "run"
    /\ HasCall(calls, "setup")
    /\ nvs = [ssid |-> "home", password |-> NoKey]
    /\ Begins(calls) = <<Call("WiFi.begin", [ssid |-> "home", password |-> ""])>>

\* C14 (as stated): the response to a submission is sent before the attempt
\* starts, and while an attempt that lasts at least one poll delay is
\* waiting for its result the loop goes on servicing requests.
C14_SubmissionDoesNotBlock ==
    [][HasCall(calls', "handleConnect")
          => /\ 0 < FirstIndex(calls', "server.send")
             /\ FirstIndex(calls', "server.send") < FirstIndex(calls', "WiFi.begin")
             /\ polls' > 1 => ServicedDuringAttempt(calls')]_vars

\* C14 (amended): the response to a submission is sent before the attempt
\* starts; the attempt then blocks the pass of loop() until it returns, for
\* up to the deadline, and nothing is serviced in between.
C14_ResponseFirstThenBlocking ==
    [][HasCall(calls', "handleConnect")
          => /\ sent' = <<ConnectingPage>>
             /\ 0 < FirstIndex(calls', "server.send")
             /\ FirstIndex(calls', "server.send") < FirstIndex(calls', "WiFi.begin")
             /\ ResultIndex(calls') = FirstIndex(calls', "WiFi.begin") + 1
             /\ ~ServicedDuringAttempt(calls')
             /\ polls' >= 1
             /\ (polls' - 1) * POLL_DELAY <= WIFI_TIMEOUT]_vars

C14_Witness ==
    /\ FailedSubmission(calls)
    /\ sent = <<ConnectingPage>>
    /\ (polls - 1) * POLL_DELAY = WIFI_TIMEOUT
    /\ PortalActive

\* C15: Scenario B.  A boot with a stored credential whose attempt succeeds
\* ends in Connected without the portal having been started and with the
\* stored name and secret as they were.
C15_ScenarioB ==
    [][(pc = "boot" /\ GetString(nvs, "ssid") # "" /\ pc' = "run"
           /\ HasCall(calls', "connectToWiFi.true"))
          => /\ Connected'
             /\ bootResult' = "connected"
             /\ ~HasCall(calls', "startConfigPortal")
             /\ ~HasCall(calls', "WiFi.softAP")
             /\ ~HasCall(calls', "dnsServer.start")
             /\ ~apUp' /\ ~dnsUp'
             /\ ~HasCall(calls', "saveCredentials")
             /\ nvs' = nvs
             /\ staTarget' = [ssid |-> GetString(nvs, "ssid"),
                              password |-> GetString(nvs, "password")]]_vars

C15_Witness ==
    /\ Connected
    /\ bootResult = "connected"
    /\ HasCall(calls, "setup")
    /\ nvs = [ssid |-> "home", password |-> "secret123"]
    /\ staTarget = [ssid |-> "home", password |-> "secret123"]
    /\ ~apUp /\ ~dnsUp

\* C16: a save followed by a load gives back the saved name and secret: a
\* submission leaves exactly the submitted pair in NVS, a restart other than
\* a reset keeps the record, and the boot that follows loads that pair into
\* the globals.
C16_StoreRoundTrip ==
    [][/\ \A id \in Identities :
            Submitted(calls', id)
            => /\ nvs' = NvsOf(id)
               /\ GetString(nvs', "ssid") = id.ssid
               /\ GetString(nvs', "password") = id.password
       /\ (pc = "run" /\ pc' = "boot" /\ ~HasCall(calls', "handleReset"))
          => nvs' = nvs
       /\ \A id \in Identities :
            (pc = "boot" /\ pc' = "run" /\ nvs = NvsOf(id))
            => (nvs' = nvs /\ ssid' = id.ssid /\ password' = id.password)]_vars

C16_Witness ==
    /\ bootResult = "noCredential"
    /\ Submitted(calls, [ssid |-> "office", password |-> "secret123"])
    /\ nvs = [ssid |-> "office", password |-> "secret123"]
    /\ loadCredentials(State).ssid = "office"
    /\ loadCredentials(State).password = "secret123"

\* The modes that hold in the current state.
ModesHolding ==
    {m \in {"Uninitialized", "Connecting", "Connected", "PortalActive"} :
        \/ m = "Uninitialized" /\ Uninitialized
        \/ m = "Connecting" /\ LinkDown
        \/ m = "Connected" /\ Connected
        \/ m = "PortalActive" /\ PortalActive}

\* C17: the device is in exactly one mode, and it never has the station
\* link up (the mark of Connected) while configMode is true (the mark of
\* PortalActive).
C17_OneModeAtATime ==
    /\ Cardinality(ModesHolding) = 1
    /\ ~(configMode /\ staStatus = WL_CONNECTED)
    /\ configMode => (pc = "run" /\ wifiMode = "WIFI_AP")
    /\ staStatus = WL_CONNECTED => wifiMode = "WIFI_STA"

C17_Witness ==
    /\ Connected
    /\ SucceededSubmission(calls)
    /\ HasCall(calls, "dnsServer.processNextRequest")
    /\ wifiMode = "WIFI_STA"

\* C18: GET /api/gpio answers with one entry per pin 0, 1, 3, 4, 5 in this
\* order, an entry's state being HIGH exactly when the pin reads high, and
\* changes neither the mode nor the credential.
C18_GpioApi ==
    [][HasCall(calls', "handleGPIOAPI")
          => /\ Len(sent') = 1
             /\ sent'[1].code = 200
             /\ sent'[1].type = "application/json"
             /\ Len(sent'[1].entries) = 5
             /\ \A i \in 1..5 :
                  /\ sent'[1].entries[i].gpio = <<0, 1, 3, 4, 5>>[i]
                  /\ sent'[1].entries[i].state \in {"HIGH", "LOW"}
                  /\ sent'[1].entries[i].state = "HIGH"
                     <=> pins[<<0, 1, 3, 4, 5>>[i]] = HIGH
             /\ UNCHANGED <<nvs, ssid, password, configMode, wifiMode,
                            staStatus, staTarget, apUp, dnsUp, serverUp, pc>>]_vars

C18_Witness ==
    /\ PortalActive
    /\ HasCall(calls, "handleGPIOAPI")
    /\ pins[0] = LOW /\ pins[1] = HIGH
    /\ Len(sent) = 1
    /\ sent[1].entries[1] = [gpio |-> 0, state |-> "LOW"]
    /\ sent[1].entries[2] = [gpio |-> 1, state |-> "HIGH"]
    /\ sent[1].entries[5] = [gpio |-> 5, state |-> "LOW"]

\* C19 (as stated): a submission received while Connected changes neither
\* the mode, nor the station association, nor the stored credential.
C19_SubmissionIgnoredWhenConnected ==
    [][(Connected /\ HasCall(calls', "handleConnect"))
          => /\ Connected'
             /\ staTarget' = staTarget
             /\ nvs' = nvs
             /\ ~HasCall(calls', "WiFi.begin")]_vars

\* C20: a connection attempt makes at most WIFI_TIMEOUT / POLL_DELAY + 1
\* status reads in its polling loop and returns; after a true result the
\* station is connected, after a false result the radio has been
\* disconnected, and the step ends in Connected or in PortalActive.
C20_AttemptTerminates ==
    [][HasCall(calls', "WiFi.begin")
          => /\ polls' >= 1
             /\ polls' <= (WIFI_TIMEOUT \div POLL_DELAY) + 1
             /\ HasCall(calls', "connectToWiFi.true")
                <=> ~HasCall(calls', "connectToWiFi.false")
             /\ HasCall(calls', "connectToWiFi.true")
                => (staStatus' = WL_CONNECTED /\ Connected')
             /\ HasCall(calls', "connectToWiFi.false")
                => /\ FirstIndex(calls', "WiFi.disconnect")
                          = FirstIndex(calls', "connectToWiFi.false") + 1
                   /\ staStatus' = WL_DISCONNECTED
                   /\ staTarget' = NoId
                   /\ PortalActive'
             /\ Connected' \/ PortalActive']_vars

C20_Witness ==
    /\ PortalActive
    /\ HasCall(calls, "connectToWiFi.false")
    /\ polls = (WIFI_TIMEOUT \div POLL_DELAY) + 1

\* The number of the first read in rs that returned WL_CONNECT_FAILED, 0
\* when none did.
RejectedAt(rs) ==
    IF \E i \in DOMAIN rs : rs[i] = WL_CONNECT_FAILED
    THEN CHOOSE i \in DOMAIN rs :
             /\ rs[i] = WL_CONNECT_FAILED
             /\ \A j \in 1..(i - 1) : rs[j] # WL_CONNECT_FAILED
    ELSE 0

\* C21 (as stated): when a status read made before the deadline returns a
\* failure, it is the last read of the polling loop, the attempt returns
\* false, and the portal is entered without the deadline having elapsed.
C21_RejectionEndsAttempt ==
    [][(RejectedAt(reads') > 0
           /\ (RejectedAt(reads') - 1) * POLL_DELAY < WIFI_TIMEOUT)
          => /\ polls' = RejectedAt(reads')
             /\ (polls' - 1) * POLL_DELAY < WIFI_TIMEOUT
             /\ HasCall(calls', "connectToWiFi.false")
             /\ PortalActive']_vars

\* C22: the answer to GET / and to a request for an unregistered path
\* depends on the mode when the request is handled: in PortalActive both
\* get the WiFi configuration page; otherwise GET / gets the GPIO page and
\* the unregistered path gets 404, whatever happened before.
C22_RoutingFollowsMode ==
    [][/\ (PortalActive /\ HasCall(calls', "server.on(/)"))
          => sent' = <<ConfigPage>>
       /\ (PortalActive /\ HasCall(calls', "server.onNotFound"))
          => sent' = <<ConfigPage>>
       /\ (pc = "run" /\ ~PortalActive /\ HasCall(calls', "server.on(/)"))
          => /\ Len(sent') = 1
             /\ sent'[1].code = 200
             /\ sent'[1].page = "ESP32-C3 GPIO Monitor"
       /\ (pc = "run" /\ ~PortalActive /\ HasCall(calls', "server.onNotFound"))
          => sent' = <<NotFoundResponse>>]_vars

\* The root page is the GPIO page in a session that began in the portal and
\* whose routes were registered again by a submission.
C22_Witness ==
    /\ Connected
    /\ bootResult = "noCredential"
    /\ HasCall(calls, "server.on(/)")
    /\ Len(sent) = 1
    /\ sent[1].page = "ESP32-C3 GPIO Monitor"

\* A pass of loop() in the portal that found neither a query nor a request.
IdlePortalPass(cs) ==
    cs = <<Call("loop", NoId), Call("dnsServer.processNextRequest", NoId),
           Call("server.handleClient", NoId)>>

\* C23: in PortalActive, with loop() called again and again, a query that
\* waits at the resolver is eventually answered, unless the portal session
\* ends first; every answer carries the access point's address whatever the
\* name; the resolver is serviced only in PortalActive; and a pass that
\* finds no query changes nothing.
C23_CaptiveResolver ==
    /\ \A name \in QueryNames :
          (PortalActive /\ \E i \in DOMAIN dnsQueue : dnsQueue[i] = name)
          ~> \/ dnsSent = <<[name |-> name, addr |-> softAPIP]>>
             \/ ~PortalActive
             \/ HasCall(calls, "dnsServer.stop")
    /\ [][/\ HasCall(calls', "dnsServer.processNextRequest") => PortalActive
          /\ dnsSent' # <<>>
             => /\ PortalActive
                /\ dnsQueue # <<>>
                /\ dnsSent' = <<[name |-> Head(dnsQueue), addr |-> softAPIP]>>
                /\ ~HasCall(calls', "dnsServer.stop")
                   => dnsQueue' = Tail(dnsQueue)
          /\ (PortalActive /\ dnsQueue = <<>> /\ IdlePortalPass(calls'))
             => UNCHANGED <<nvs, ssid, password, configMode, wifiMode,
                            staStatus, staTarget, apUp, dnsUp, serverUp, pc,
                            dnsIP, dnsQueue>>]_vars

C23_Witness ==
    /\ PortalActive
    /\ dnsSent = <<[name |-> "example.org", addr |-> softAPIP]>>
    /\ dnsQueue = <<"connectivitycheck.gstatic.com">>
    /\ HasCall(calls, "dnsServer.processNextRequest")

\* The counter wrapped to 0 between the first and the last read of the
\* polling loop of the most recent step.
WrappedDuringAttempt ==
    /\ polls > 1
    /\ clock < 0
    /\ Less32(millis(polls - 1), startTime)

\* C24: whatever the value of millis() at which an attempt starts, also
\* when the counter wraps during the attempt, the polling loop does not run
\* beyond the deadline (at most WIFI_TIMEOUT / POLL_DELAY + 1 reads), and it
\* does not end early (it ends before the deadline only on a read that
\* returned WL_CONNECTED).
C24_DeadlineSurvivesWrap ==
    [][HasCall(calls', "WiFi.begin")
          => /\ polls' >= 1
             /\ (polls' - 1) * POLL_DELAY <= WIFI_TIMEOUT
             /\ (polls' - 1) * POLL_DELAY < WIFI_TIMEOUT
                => reads'[polls'] = WL_CONNECTED
             /\ \A i \in 1..(polls' - 1) : reads'[i] # WL_CONNECTED]_vars

C24_Witness ==
    /\ WrappedDuringAttempt
    /\ clock = BeforeWrap(WIFI_TIMEOUT \div 2)
    /\ (polls - 1) * POLL_DELAY = WIFI_TIMEOUT
    /\ reads[polls] # WL_CONNECTED
    /\ HasCall(calls, "connectToWiFi.false")

====
